---- MODULE Spec2Model ----
(***************************************************************************)
(* DirectionalIdleAnimations.js: the idle-animation state machine of one   *)
(* Game_Character (timer, probabilistic trigger, weighted selection, frame *)
(* advance, reversion), the notetag parser that feeds it, and the          *)
(* triggerIdle plugin command.                                             *)
(*                                                                         *)
(* Numbers of the timer are IEEE-754 doubles.  A non-negative double below *)
(* 8192 that is 0 or at least 2^-6 is a multiple of 2^-58; it is kept as   *)
(* that multiple, written in three limbs <<l2, l1, l0>> of base 2^20       *)
(* (value = (l2 * 2^40 + l1 * 2^20 + l0) * 2^-58).  NaN is <<-1, -1, -1>>. *)
(***************************************************************************)
EXTENDS Integers, Sequences, FiniteSets, TLC

\* ------------------------------------------------------------------------
\* IEEE-754 double arithmetic on the limb representation
\* ------------------------------------------------------------------------

LimbBits == 20

Base == 2 ^ LimbBits

MantissaBits == 53

NaN == <<-1, -1, -1>>

FZero == <<0, 0, 0>>

IsNaN(x) == x[1] < 0

RECURSIVE BitLen(_)
BitLen(n) == IF n = 0 THEN 0 ELSE 1 + BitLen(n \div 2)

\* The bits a value of this magnitude has below its 53-bit significand.
DropBits(v) ==
  LET len == IF v[1] > 0 THEN 2 * LimbBits + BitLen(v[1])
             ELSE IF v[2] > 0 THEN LimbBits + BitLen(v[2])
             ELSE BitLen(v[3])
  IN  IF len > MantissaBits THEN len - MantissaBits ELSE 0

\* Carry propagation of limbs that may have reached Base.
Normalize(v) ==
  LET c0 == v[3] \div Base
      m1 == v[2] + c0
      c1 == m1 \div Base
  IN  <<v[1] + c1, m1 % Base, v[3] % Base>>

\* Round to nearest, ties to even, to 53 significant bits.  sticky: the exact
\* value has non-zero bits below the last limb.
Round53(v, sticky) ==
  LET s    == DropBits(v)
      unit == 2 ^ s
      r    == v[3] % unit
      q    == v[3] \div unit
      half == unit \div 2
      up   == IF s = 0 THEN FALSE
              ELSE \/ r > half
                   \/ r = half /\ sticky
                   \/ r = half /\ ~sticky /\ q % 2 = 1
  IN  Normalize(<<v[1], v[2], (q + (IF up THEN 1 ELSE 0)) * unit>>)

\* a + b of two doubles: the exact sum, rounded once.
FAdd(a, b) ==
  IF IsNaN(a) \/ IsNaN(b) THEN NaN
  ELSE Round53(Normalize(<<a[1] + b[1], a[2] + b[2], a[3] + b[3]>>), FALSE)

FLess(a, b) ==
  /\ ~IsNaN(a)
  /\ ~IsNaN(b)
  /\ \/ a[1] < b[1]
     \/ a[1] = b[1] /\ a[2] < b[2]
     \/ a[1] = b[1] /\ a[2] = b[2] /\ a[3] < b[3]

\* a > b and a >= b of JavaScript: false when either side is NaN.
FGreater(a, b) == FLess(b, a)

FGreaterEq(a, b) == ~IsNaN(a) /\ ~IsNaN(b) /\ ~FLess(a, b)

\* n bits of the binary expansion of r / d (0 <= r < d): <<the bits as a
\* number, the remainder left>>.
RECURSIVE FracBits(_, _, _)
FracBits(r, d, n) ==
  IF n = 0 THEN <<0, r>>
  ELSE LET rest == FracBits((2 * r) % d, d, n - 1)
       IN  <<((2 * r) \div d) * 2 ^ (n - 1) + rest[1], rest[2]>>

\* The double nearest to n / d (n >= 0, d > 0; the quotient is 0 or >= 2^-6).
FDiv(n, d) ==
  LET top == FracBits(n % d, d, 18)
      mid == FracBits(top[2], d, LimbBits)
      low == FracBits(mid[2], d, LimbBits)
      v   == <<(n \div d) * 2 ^ 18 + top[1], mid[1], low[1]>>
      lsb == IF DropBits(v) = 0 /\ 2 * low[2] > d THEN 1
             ELSE IF DropBits(v) = 0 /\ 2 * low[2] = d THEN low[1] % 2
             ELSE 0
  IN  IF DropBits(v) = 0 THEN Normalize(<<v[1], v[2], v[3] + lsb>>)
      ELSE Round53(v, low[2] # 0)

FromInt(n) == FDiv(n, 1)

\* ------------------------------------------------------------------------
\* Text: a string is a sequence of one-character strings
\* ------------------------------------------------------------------------

Digits == <<"0", "1", "2", "3", "4", "5", "6", "7", "8", "9">>

IsDigit(c) == \E i \in 1..Len(Digits) : Digits[i] = c

DigitVal(c) == (CHOOSE i \in 1..Len(Digits) : Digits[i] = c) - 1

\* The longest prefix of digits of text, from position i on.
RECURSIVE DigitRun(_, _)
DigitRun(text, i) ==
  IF i > Len(text) \/ ~IsDigit(text[i]) THEN <<>>
  ELSE <<text[i]>> \o DigitRun(text, i + 1)

RECURSIVE DecimalValue(_)
DecimalValue(ds) ==
  IF ds = <<>> THEN 0
  ELSE 10 * DecimalValue(SubSeq(ds, 1, Len(ds) - 1)) + DigitVal(ds[Len(ds)])

\* parseInt's NaN, for a text that does not start with a digit.
IntNaN == -1

\* parseInt(text).
ParseInt(text) ==
  LET ds == DigitRun(text, 1)
  IN  IF ds = <<>> THEN IntNaN ELSE DecimalValue(ds)

\* parseFloat(text) of a text over [0-9.]: the longest prefix
\* digits [. digits], NaN when it holds no digit.
ParseFloat(text) ==
  LET int  == DigitRun(text, 1)
      dot  == Len(int) + 1 <= Len(text) /\ text[Len(int) + 1] = "."
      frac == IF dot THEN DigitRun(text, Len(int) + 2) ELSE <<>>
  IN  IF int = <<>> /\ frac = <<>> THEN NaN
      ELSE FDiv(DecimalValue(int \o frac), 10 ^ Len(frac))

\* ------------------------------------------------------------------------
\* Plugin parameters
\* ------------------------------------------------------------------------

\* parseFloat(params[key] || dflt): an absent or empty parameter is falsy.
ParamOr(text, dflt) == IF text = <<>> THEN FromInt(dflt) ELSE ParseFloat(text)

\* The constants DEFAULT_MIN_IDLE, DEFAULT_MAX_IDLE and DEFAULT_PROB the
\* plugin computes, when it is loaded, from its parameters p.
Defaults(p) ==
  [MIN_IDLE |-> ParamOr(p.DefaultMinIdleTime, 5),
   MAX_IDLE |-> ParamOr(p.DefaultMaxIdleTime, 10),
   PROB     |-> ParamOr(p.DefaultIdleProbability, 80)]

\* ------------------------------------------------------------------------
\* Notetag parsing
\* ------------------------------------------------------------------------

\* A line of a note, as the three regular expressions of loadIdleNotetags see
\* it: the tag it matches ("other": none) and the texts of the capture groups.
\* prob is <<>> when the optional fourth group did not take part in the match.
MinTimeLine(num) ==
  [tag |-> "IdleAnimMinTime", num |-> num, name |-> "", start |-> <<>>,
   end |-> <<>>, prob |-> <<>>]

MaxTimeLine(num) ==
  [tag |-> "IdleAnimMaxTime", num |-> num, name |-> "", start |-> <<>>,
   end |-> <<>>, prob |-> <<>>]

IdleAnimLine(name, start, end, prob) ==
  [tag |-> "IdleAnim", num |-> <<>>, name |-> name, start |-> start,
   end |-> end, prob |-> prob]

OtherLine ==
  [tag |-> "other", num |-> <<>>, name |-> "", start |-> <<>>,
   end |-> <<>>, prob |-> <<>>]

\* minTime / maxTime left undefined by the parser.
Undefined == <<-2, -2, -2>>

\* x || dflt on a number: 0 and NaN are falsy.
OrDefault(x, dflt) == IF x = IntNaN \/ x = 0 THEN dflt ELSE x

\* The definition pushed for one IdleAnim line.
ParseIdleAnim(line) ==
  [name         |-> line.name,
   startPattern |-> ParseInt(line.start),
   endPattern   |-> ParseInt(line.end),
   probability  |-> OrDefault(ParseInt(line.prob), 100)]

\* The loop of loadIdleNotetags over the lines of a note.
RECURSIVE ParseLines(_, _)
ParseLines(lines, acc) ==
  IF lines = <<>> THEN acc
  ELSE LET line == Head(lines)
           next == IF line.tag = "IdleAnimMinTime"
                     THEN [acc EXCEPT !.minTime = ParseFloat(line.num)]
                   ELSE IF line.tag = "IdleAnimMaxTime"
                     THEN [acc EXCEPT !.maxTime = ParseFloat(line.num)]
                   ELSE IF line.tag = "IdleAnim"
                     THEN [acc EXCEPT !.idleAnims = Append(@, ParseIdleAnim(line))]
                   ELSE acc
       IN  ParseLines(Tail(lines), next)

ParseNote(note) ==
  ParseLines(note, [idleAnims |-> <<>>, minTime |-> Undefined, maxTime |-> Undefined])

\* The profile (definition list, min, max) of a character.
Profile(anims, minT, maxT) == [idleAnimations |-> anims, idleMinTime |-> minT, idleMaxTime |-> maxT]

\* setCharacterIdleData, on a profile.
SetCharacterIdleData(prof, idleAnims, minTime, maxTime) ==
  Profile(idleAnims,
          IF minTime # Undefined THEN minTime ELSE prof.idleMinTime,
          IF maxTime # Undefined THEN maxTime ELSE prof.idleMaxTime)

\* loadIdleNotetags(note), on a profile.  The empty note is falsy.
LoadIdleNotetags(prof, note) ==
  IF note = <<>> THEN prof
  ELSE LET parsed == ParseNote(note)
       IN  SetCharacterIdleData(prof, parsed.idleAnims, parsed.minTime, parsed.maxTime)

\* Command codes of a comment's first line and of its following lines.
CommentCodes == {108, 408}

\* The loop of setupPageSettings over the commands of the page.
RECURSIVE LoadPageComments(_, _)
LoadPageComments(prof, list) ==
  IF list = <<>> THEN prof
  ELSE LET cmd == Head(list)
       IN  LoadPageComments(
             IF cmd.code \in CommentCodes THEN LoadIdleNotetags(prof, cmd.text) ELSE prof,
             Tail(list))

\* ------------------------------------------------------------------------
\* State
\* ------------------------------------------------------------------------

VARIABLES
  DEFAULT,                \* the constants DEFAULT_MIN_IDLE, DEFAULT_MAX_IDLE, DEFAULT_PROB
  idleAnimations,         \* _idleAnimations
  isIdling,               \* _isIdling
  idleTimer,              \* _idleTimer (a double)
  idleMinTime,            \* _idleMinTime (a double)
  idleMaxTime,            \* _idleMaxTime (a double)
  currentIdleAnim,        \* _currentIdleAnim, NoAnim for null
  originalPattern,        \* _originalPattern
  originalCharacterName,  \* _originalCharacterName
  idleFacingDirection,    \* _idleFacingDirection
  idleFrameCount,         \* _idleFrameCount, NotSet before the first idle
  idleAnimLength,         \* _idleAnimLength, NotSet before the first idle
  characterName,          \* _characterName (host: the displayed sheet)
  pattern,                \* _pattern (host: the displayed pattern)
  direction,              \* _direction (host: the displayed facing)
  moving,                 \* isMoving() (host)
  waitCount,              \* _waitCount (host)
  ticks,                  \* history: additions to idleTimer since it was last 0
  entry,                  \* history: the sheet and pattern displayed at the last idle entry
  played,                 \* history: ticks of playback since the last idle entry, NotSet before it
  lastLoad                \* history: the last metadata load and its lines

idleState ==
  <<isIdling, idleTimer, currentIdleAnim, originalPattern, originalCharacterName,
    idleFacingDirection, idleFrameCount, idleAnimLength>>

profileVars == <<idleAnimations, idleMinTime, idleMaxTime>>

renderVars == <<characterName, pattern, direction>>

hostVars == <<moving, waitCount>>

vars ==
  <<DEFAULT, idleAnimations, isIdling, idleTimer, idleMinTime, idleMaxTime,
    currentIdleAnim, originalPattern, originalCharacterName, idleFacingDirection,
    idleFrameCount, idleAnimLength, characterName, pattern, direction, moving,
    waitCount, ticks, entry, played, lastLoad>>

\* null, for _currentIdleAnim.
NoAnim == [name |-> "", startPattern |-> -1, endPattern |-> -1, probability |-> -1]

\* A field initMembers does not set.
NotSet == -1

\* Ticks each pattern of an idle animation is shown.
framePerPattern == 15

\* The facing initMembers records before any idle ("default down").
DefaultDown == 2

\* ------------------------------------------------------------------------
\* Game_Character: the idle state machine
\* ------------------------------------------------------------------------

\* (anim.probability || 100)
Weight(anim) == OrDefault(anim.probability, 100)

RECURSIVE TotalWeight(_)
TotalWeight(anims) ==
  IF anims = <<>> THEN 0 ELSE Weight(Head(anims)) + TotalWeight(Tail(anims))

\* Draws of Math.random(): u stands for u / RandSteps in [0, 1).
RandSteps == 2

\* The walk of startIdleAnimation: rand = (u / RandSteps) * totalWeight; the
\* index of the first definition at which rand, less the weights so far,
\* is <= 0; 0 when there is none.
RECURSIVE Walk(_, _, _, _)
Walk(anims, i, u, cum) ==
  IF i > Len(anims) THEN 0
  ELSE IF u * TotalWeight(anims) <= RandSteps * (cum + Weight(anims[i])) THEN i
  ELSE Walk(anims, i + 1, u, cum + Weight(anims[i]))

ChosenAnim(anims, u) ==
  LET i == Walk(anims, 1, u, 0)
  IN  IF i = 0 THEN anims[1] ELSE anims[i]

\* What startIdleAnimation assigns.
startVars ==
  <<isIdling, currentIdleAnim, originalCharacterName, originalPattern,
    idleFacingDirection, characterName, pattern, idleFrameCount, idleAnimLength, entry, played>>

\* Mutant of StartIdleAnimation: a snapshot taken once is kept.
StartIdleAnimation_KeepsFirstSnapshot(u) ==
  IF Len(idleAnimations) = 0 THEN UNCHANGED startVars
  ELSE LET chosenAnim == ChosenAnim(idleAnimations, u)
           first == originalCharacterName = ""
       IN  /\ isIdling' = TRUE
           /\ currentIdleAnim' = chosenAnim
           /\ originalCharacterName' = IF first THEN characterName ELSE originalCharacterName
           /\ originalPattern' = IF first THEN pattern ELSE originalPattern
           /\ idleFacingDirection' = direction
           /\ characterName' = chosenAnim.name
           /\ pattern' = chosenAnim.startPattern
           /\ idleFrameCount' = 0
           /\ idleAnimLength' =
                (chosenAnim.endPattern - chosenAnim.startPattern + 1) * framePerPattern
           /\ entry' = [sheet |-> characterName, pattern |-> pattern]
           /\ played' = 0

\* startIdleAnimation, with the draw u of the selection.
StartIdleAnimation(u) ==
  IF Len(idleAnimations) = 0 THEN UNCHANGED startVars
  ELSE LET chosenAnim == ChosenAnim(idleAnimations, u)
       IN  /\ isIdling' = TRUE
           /\ currentIdleAnim' = chosenAnim
           /\ originalCharacterName' = characterName
           /\ originalPattern' = pattern
           /\ idleFacingDirection' = direction
           /\ characterName' = chosenAnim.name
           /\ pattern' = chosenAnim.startPattern
           /\ idleFrameCount' = 0
           /\ idleAnimLength' =
                (chosenAnim.endPattern - chosenAnim.startPattern + 1) * framePerPattern
           /\ entry' = [sheet |-> characterName, pattern |-> pattern]
           /\ played' = 0

\* Mutant of RevertToOriginal: the pattern is not restored.
RevertToOriginal_KeepPattern ==
  /\ characterName' = originalCharacterName
  /\ pattern' = pattern
  /\ isIdling' = FALSE
  /\ currentIdleAnim' = NoAnim
  /\ idleTimer' = FZero
  /\ ticks' = 0
  /\ UNCHANGED <<direction, originalCharacterName, originalPattern,
                 idleFacingDirection, idleAnimLength, entry>>

\* Mutant of RevertToOriginal: the current animation is not cleared.
RevertToOriginal_KeepAnim ==
  /\ characterName' = originalCharacterName
  /\ pattern' = originalPattern
  /\ isIdling' = FALSE
  /\ currentIdleAnim' = currentIdleAnim
  /\ idleTimer' = FZero
  /\ ticks' = 0
  /\ UNCHANGED <<direction, originalCharacterName, originalPattern,
                 idleFacingDirection, idleAnimLength, entry>>

\* The completion branch of updateIdleAnimationFrame.
RevertToOriginal ==
  /\ characterName' = originalCharacterName
  /\ pattern' = originalPattern
  /\ isIdling' = FALSE
  /\ currentIdleAnim' = NoAnim
  /\ idleTimer' = FZero
  /\ ticks' = 0
  /\ UNCHANGED <<direction, originalCharacterName, originalPattern,
                 idleFacingDirection, idleAnimLength, entry>>

\* Mutant of PatternAt: the index of the pattern without the start's offset.
PatternAt_NoOffset(anim, n) ==
  LET patternCount == anim.endPattern - anim.startPattern + 1
      q == n \div framePerPattern
  IN  q % patternCount

\* The pattern shown at frame count n of definition anim (patternCount > 0:
\* with fewer patterns the animation's length is <= 0 and no frame advances).
PatternAt(anim, n) ==
  LET patternCount == anim.endPattern - anim.startPattern + 1
      q == n \div framePerPattern
  IN  anim.startPattern + (q % patternCount)

\* Mutant of AdvanceFrame: the facing is not forced.
AdvanceFrame_NoFacing ==
  /\ pattern' = PatternAt(currentIdleAnim, idleFrameCount')
  /\ direction' = direction
  /\ UNCHANGED <<characterName, isIdling, currentIdleAnim, idleTimer, ticks,
                 originalCharacterName, originalPattern, idleFacingDirection,
                 idleAnimLength, entry>>

\* Mutant of AdvanceFrame: the timer keeps running during the playback.
AdvanceFrame_TimerRuns ==
  /\ pattern' = PatternAt(currentIdleAnim, idleFrameCount')
  /\ direction' = idleFacingDirection
  /\ idleTimer' = FAdd(idleTimer, FDiv(1, 60))
  /\ UNCHANGED <<characterName, isIdling, currentIdleAnim, ticks,
                 originalCharacterName, originalPattern, idleFacingDirection,
                 idleAnimLength, entry>>

\* The advance branch of updateIdleAnimationFrame.
AdvanceFrame ==
  /\ pattern' = PatternAt(currentIdleAnim, idleFrameCount')
  /\ direction' = idleFacingDirection
  /\ UNCHANGED <<characterName, isIdling, currentIdleAnim, idleTimer, ticks,
                 originalCharacterName, originalPattern, idleFacingDirection,
                 idleAnimLength, entry>>

\* Mutant of UpdateIdleAnimationFrame: completion one tick late (> for >=).
UpdateIdleAnimationFrame_LateCompletion ==
  /\ idleFrameCount' = idleFrameCount + 1
  /\ played' = played + 1
  /\ IF idleFrameCount' > idleAnimLength THEN RevertToOriginal ELSE AdvanceFrame

\* updateIdleAnimationFrame.
UpdateIdleAnimationFrame ==
  /\ idleFrameCount' = idleFrameCount + 1
  /\ played' = played + 1
  /\ IF idleFrameCount' >= idleAnimLength THEN RevertToOriginal ELSE AdvanceFrame

\* Mutant of ResetIdle: the interrupt runs the visual revert too.
ResetIdle_Reverts ==
  /\ isIdling' = FALSE
  /\ idleTimer' = FZero
  /\ currentIdleAnim' = NoAnim
  /\ ticks' = 0
  /\ characterName' = IF isIdling THEN originalCharacterName ELSE characterName
  /\ pattern' = IF isIdling THEN originalPattern ELSE pattern
  /\ UNCHANGED <<originalPattern, originalCharacterName, idleFacingDirection,
                 idleFrameCount, idleAnimLength, direction, entry, played>>

\* The first branch of updateIdle: the character moves or waits.
ResetIdle ==
  /\ isIdling' = FALSE
  /\ idleTimer' = FZero
  /\ currentIdleAnim' = NoAnim
  /\ ticks' = 0
  /\ UNCHANGED <<originalPattern, originalCharacterName, idleFacingDirection,
                 idleFrameCount, idleAnimLength, characterName, pattern, direction, entry, played>>

\* Mutant of TickSeconds: a tick of 1/30 s.
TickSeconds_Thirtieth == FDiv(1, 30)

\* 1/60, the tick's addition to the timer.
TickSeconds == FDiv(1, 60)

\* Math.random() * 100 for the draw v / RollSteps.
RollSteps == 2

RollTable == [v \in 0..(RollSteps - 1) |-> FDiv(v * 100, RollSteps)]

Roll(v) == RollTable[v]

\* Mutant of Triggers: no forced trigger beyond the maximum.
Triggers_NoForce(t, roll) ==
  /\ FGreaterEq(t, idleMinTime)
  /\ FLess(roll, DEFAULT.PROB)

\* Mutant of Triggers: no minimum before the draw counts.
Triggers_NoMinGate(t, roll) ==
  \/ FGreater(t, idleMaxTime)
  \/ FLess(roll, DEFAULT.PROB)

\* The trigger test of updateIdle on the incremented timer t.
Triggers(t, roll) ==
  /\ FGreaterEq(t, idleMinTime)
  /\ \/ FGreater(t, idleMaxTime)
     \/ FLess(roll, DEFAULT.PROB)

\* Mutant of AwaitTrigger: a trigger attempt starts the timer over.
AwaitTrigger_ResetOnAttempt(v, u) ==
  LET t == FAdd(idleTimer, TickSeconds)
  IN  /\ idleTimer' = IF Triggers(t, Roll(v)) THEN FZero ELSE t
      /\ ticks' = IF Triggers(t, Roll(v)) THEN 0 ELSE ticks + 1
      /\ direction' = direction
      /\ IF Triggers(t, Roll(v)) THEN StartIdleAnimation(u) ELSE UNCHANGED startVars

\* The second branch of updateIdle: not idling.
AwaitTrigger(v, u) ==
  /\ idleTimer' = FAdd(idleTimer, TickSeconds)
  /\ ticks' = ticks + 1
  /\ direction' = direction
  /\ IF Triggers(idleTimer', Roll(v)) THEN StartIdleAnimation(u) ELSE UNCHANGED startVars

\* Mutant of UpdateIdle: the motion state read is the one before the host's
\* update of this tick.
UpdateIdle_StaleMotion(v, u) ==
  IF moving \/ waitCount > 0 THEN ResetIdle
  ELSE IF ~isIdling THEN AwaitTrigger(v, u)
  ELSE IF currentIdleAnim # NoAnim THEN UpdateIdleAnimationFrame
  ELSE UNCHANGED <<idleState, renderVars, ticks, entry, played>>

\* updateIdle, with the host's motion state of this tick.
UpdateIdle(v, u) ==
  IF moving' \/ waitCount' > 0 THEN ResetIdle
  ELSE IF ~isIdling THEN AwaitTrigger(v, u)
  ELSE IF currentIdleAnim # NoAnim THEN UpdateIdleAnimationFrame
  ELSE UNCHANGED <<idleState, renderVars, ticks, entry, played>>

\* ------------------------------------------------------------------------
\* Operations
\* ------------------------------------------------------------------------

\* Game_Character.update: the host's own update settles whether the character
\* moves (mv) and waits (wc) in this tick, then updateIdle runs.  cap bounds
\* how long the host leaves a character that is not idling at rest.
Update(cap, mv, wc, v, u) ==
  /\ isIdling \/ mv \/ wc > 0 \/ ticks < cap
  /\ moving' = mv
  /\ waitCount' = wc
  /\ UpdateIdle(v, u)
  /\ UNCHANGED <<DEFAULT, profileVars, lastLoad>>

\* The id under which $gameMap.character finds the character.
CharacterId == 1

\* Mutant of TriggerIdle: no test of _isIdling.
TriggerIdle_NoIdlingTest(characterId, u) ==
  IF characterId = CharacterId /\ ~moving
  THEN /\ StartIdleAnimation(u)
       /\ UNCHANGED <<DEFAULT, profileVars, idleTimer, ticks, direction, hostVars, lastLoad>>
  ELSE UNCHANGED vars

\* Mutant of TriggerIdle: a waiting character is refused too.
TriggerIdle_TestsWait(characterId, u) ==
  IF characterId = CharacterId /\ ~moving /\ waitCount = 0 /\ ~isIdling
  THEN /\ StartIdleAnimation(u)
       /\ UNCHANGED <<DEFAULT, profileVars, idleTimer, ticks, direction, hostVars, lastLoad>>
  ELSE UNCHANGED vars

\* The triggerIdle plugin command.
TriggerIdle(characterId, u) ==
  IF characterId = CharacterId /\ ~moving /\ ~isIdling
  THEN /\ StartIdleAnimation(u)
       /\ UNCHANGED <<DEFAULT, profileVars, idleTimer, ticks, direction, hostVars, lastLoad>>
  ELSE UNCHANGED vars

CurrentProfile == Profile(idleAnimations, idleMinTime, idleMaxTime)

SetProfile(prof) ==
  /\ idleAnimations' = prof.idleAnimations
  /\ idleMinTime' = prof.idleMinTime
  /\ idleMaxTime' = prof.idleMaxTime

\* Game_Actor.setup: the actor's note, when there is one.  The host sets an
\* actor up once, when it constructs it.
GameActorSetup(note) ==
  /\ lastLoad.op = "none"
  /\ SetProfile(LoadIdleNotetags(CurrentProfile, note))
  /\ lastLoad' = [op |-> "actor", lines |-> note]
  /\ UNCHANGED <<DEFAULT, idleState, renderVars, hostVars, ticks, entry, played>>

\* The lines of the comment commands of a page, in order.
RECURSIVE CommentLines(_)
CommentLines(list) ==
  IF list = <<>> THEN <<>>
  ELSE (IF Head(list).code \in CommentCodes THEN Head(list).text ELSE <<>>)
         \o CommentLines(Tail(list))

\* Game_Event.setupPageSettings: every comment command of the new page.  The
\* character is an event, not an actor that was set up.
SetupPageSettings(list) ==
  /\ lastLoad.op # "actor"
  /\ SetProfile(LoadPageComments(CurrentProfile, list))
  /\ lastLoad' = [op |-> "event", lines |-> CommentLines(list)]
  /\ UNCHANGED <<DEFAULT, idleState, renderVars, hostVars, ticks, entry, played>>

\* The host (an event command, the walking animation) writes the sheet and
\* the pattern.
HostSetImage(name, pat) ==
  /\ characterName' = name
  /\ pattern' = pat
  /\ UNCHANGED <<DEFAULT, profileVars, idleState, direction, hostVars, ticks, entry, played, lastLoad>>

\* The host turns the character.
HostSetDirection(d) ==
  /\ direction' = d
  /\ UNCHANGED <<DEFAULT, profileVars, idleState, characterName, pattern, hostVars,
                 ticks, entry, played, lastLoad>>

\* ------------------------------------------------------------------------
\* Inputs
\* ------------------------------------------------------------------------

Text0 == <<"0">>

Text1 == <<"1">>

Text2 == <<"2">>

HostSheets == {"Hero"}

HostPatterns == {1}

Directions == {2, 8}

\* _waitCount: no wait, a wait of some ticks.
WaitCounts == {0, 3}

CharacterIds == {0, CharacterId}

\* Plugin parameters: 0.02 s and 0.05 s (reached by the 2nd tick, exceeded by
\* the 4th) with probability 50 or 0.
ParamChoices ==
  {[DefaultMinIdleTime |-> <<"0", ".", "0", "2">>,
    DefaultMaxIdleTime |-> <<"0", ".", "0", "5">>,
    DefaultIdleProbability |-> prob] : prob \in {<<"5", "0">>, <<"0">>}}

\* Notes of actors: two weighted definitions, the second with endPattern <
\* startPattern.
ActorNotes ==
  {<<IdleAnimLine("A", Text0, Text0, Text1), IdleAnimLine("B", Text2, Text1, <<"3">>)>>}

\* Pages of events: one definition of one pattern; a maximum below the
\* minimum and the same definition, in the two lines of one comment.
EventPages ==
  {<<[code |-> 108, text |-> <<IdleAnimLine("A", Text0, Text0, <<>>)>>]>>,
   <<[code |-> 108, text |-> <<MaxTimeLine(<<"0", ".", "0">>)>>],
     [code |-> 408, text |-> <<IdleAnimLine("A", Text0, Text0, <<>>)>>]>>}

\* The longest rest, in ticks, the host leaves a character that is not idling.
MaxIdleTicks == 5

\* ------------------------------------------------------------------------
\* Specification
\* ------------------------------------------------------------------------

\* The plugin loaded with the parameters p, and initMembers on a character showing "Hero".
InitMembers(p) ==
  /\ DEFAULT = Defaults(p)
  /\ idleAnimations = <<>>
  /\ isIdling = FALSE
  /\ idleTimer = FZero
  /\ idleMinTime = DEFAULT.MIN_IDLE
  /\ idleMaxTime = DEFAULT.MAX_IDLE
  /\ currentIdleAnim = NoAnim
  /\ originalPattern = 0
  /\ originalCharacterName = ""
  /\ idleFacingDirection = DefaultDown
  /\ idleFrameCount = NotSet
  /\ idleAnimLength = NotSet
  /\ characterName = "Hero"
  /\ pattern = 1
  /\ direction = 2
  /\ moving = FALSE
  /\ waitCount = 0
  /\ ticks = 0
  /\ entry = [sheet |-> "", pattern |-> 0]
  /\ played = NotSet
  /\ lastLoad = [op |-> "none", lines |-> <<>>]

Init == \E p \in ParamChoices : InitMembers(p)

\* A tick in which the host moves the character or makes it wait.
TickBlocked ==
  \E mv \in BOOLEAN, wc \in WaitCounts :
    /\ mv \/ wc > 0
    /\ Update(MaxIdleTicks, mv, wc, 0, 0)

\* A tick in which the character is at rest, with the tick's two draws.
TickAtRest ==
  \E v \in 0..(RollSteps - 1), u \in 0..(RandSteps - 1) :
    Update(MaxIdleTicks, FALSE, 0, v, u)

Command == \E id \in CharacterIds, u \in 0..(RandSteps - 1) : TriggerIdle(id, u)

LoadActor == \E note \in ActorNotes : GameActorSetup(note)

LoadPage == \E list \in EventPages : SetupPageSettings(list)

SetImage == \E name \in HostSheets, pat \in HostPatterns : HostSetImage(name, pat)

SetDirection == \E d \in Directions : HostSetDirection(d)

Next == TickBlocked \/ TickAtRest \/ Command \/ LoadActor \/ LoadPage \/ SetImage \/ SetDirection

Spec == Init /\ [][Next]_vars

\* ------------------------------------------------------------------------
\* The scenario: definitions = [{A, 0, 2, 100}], minimum 1.0 s, maximum 2.0 s,
\* probability 100, and nothing but ticks
\* ------------------------------------------------------------------------

ScenarioParams ==
  [DefaultMinIdleTime |-> <<"1", ".", "0">>,
   DefaultMaxIdleTime |-> <<"2", ".", "0">>,
   DefaultIdleProbability |-> <<"1", "0", "0">>]

ScenarioNote == <<IdleAnimLine("A", Text0, Text2, <<"1", "0", "0">>)>>

\* The longest rest, in ticks, of the scenario's character while not idling.
ScenarioMaxTicks == 122

\* The character after initMembers and the load of the scenario's note.
InitScenario ==
  /\ DEFAULT = Defaults(ScenarioParams)
  /\ idleAnimations = ParseNote(ScenarioNote).idleAnims
  /\ isIdling = FALSE
  /\ idleTimer = FZero
  /\ idleMinTime = DEFAULT.MIN_IDLE
  /\ idleMaxTime = DEFAULT.MAX_IDLE
  /\ currentIdleAnim = NoAnim
  /\ originalPattern = 0
  /\ originalCharacterName = ""
  /\ idleFacingDirection = DefaultDown
  /\ idleFrameCount = NotSet
  /\ idleAnimLength = NotSet
  /\ characterName = "Hero"
  /\ pattern = 1
  /\ direction = 2
  /\ moving = FALSE
  /\ waitCount = 0
  /\ ticks = 0
  /\ entry = [sheet |-> "", pattern |-> 0]
  /\ played = NotSet
  /\ lastLoad = [op |-> "actor", lines |-> ScenarioNote]

ScenarioTickBlocked ==
  \E mv \in BOOLEAN, wc \in WaitCounts :
    /\ mv \/ wc > 0
    /\ Update(ScenarioMaxTicks, mv, wc, 0, 0)

ScenarioTickAtRest ==
  \E v \in 0..(RollSteps - 1), u \in 0..(RandSteps - 1) :
    Update(ScenarioMaxTicks, FALSE, 0, v, u)

NextScenario == ScenarioTickBlocked \/ ScenarioTickAtRest

SpecScenario == InitScenario /\ [][NextScenario]_vars

\* ------------------------------------------------------------------------
\* The parser: notes and pages drawn from bounded sets, loaded one after
\* another on a character
\* ------------------------------------------------------------------------

MaxLines == 2

MaxCommands == 2

\* Lines: a definition without probability, with probability 0, with
\* probability 70; a minimum; a maximum; a line without tag.
LineChoices ==
  {IdleAnimLine("A", Text0, Text2, <<>>),
   IdleAnimLine("B", Text1, Text2, Text0),
   IdleAnimLine("C", Text0, Text1, <<"7", "0">>),
   MinTimeLine(<<"0", ".", "1">>),
   MaxTimeLine(<<"0", ".", "2">>),
   OtherLine}

RECURSIVE SeqsUpTo(_, _)
SeqsUpTo(S, n) ==
  IF n = 0 THEN {<<>>}
  ELSE LET shorter == SeqsUpTo(S, n - 1)
       IN  shorter \cup {Append(q, x) : q \in shorter, x \in S}

NoteChoices == SeqsUpTo(LineChoices, MaxLines)

\* Commands: comment lines (108 the first, 408 the following ones), an empty
\* comment, and a command that is no comment (101: show text).
CommandChoices ==
  {[code |-> 108, text |-> <<IdleAnimLine("A", Text0, Text2, <<>>)>>],
   [code |-> 408, text |-> <<IdleAnimLine("C", Text0, Text1, <<"7", "0">>)>>],
   [code |-> 408, text |-> <<MinTimeLine(<<"0", ".", "1">>)>>],
   [code |-> 408, text |-> <<OtherLine>>],
   [code |-> 108, text |-> <<>>],
   [code |-> 101, text |-> <<IdleAnimLine("B", Text1, Text2, Text0)>>]}

PageChoices == SeqsUpTo(CommandChoices, MaxCommands)

ParseActor == \E note \in NoteChoices : GameActorSetup(note)

ParsePage == \E list \in PageChoices : SetupPageSettings(list)

NextParse == ParseActor \/ ParsePage

SpecParse == Init /\ [][NextParse]_vars

\* ------------------------------------------------------------------------
\* Playback: a character given its definitions by setCharacterIdleData, then
\* ticks and triggerIdle requests, and no other writer of the sheet
\* ------------------------------------------------------------------------

\* A definition object: { name, startPattern, endPattern, probability }.
Definition(name, start, end, prob) ==
  [name |-> name, startPattern |-> start, endPattern |-> end, probability |-> prob]

\* A definition object without the probability property.
Absent == IntNaN

\* Lists passed as idleAnims: one definition of three patterns; a probability
\* of 0 first; two weighted definitions; no probability, and endPattern <
\* startPattern; a probability of 0 between two others; a definition on the
\* character's own sheet "Hero" and another.
PlaybackLists ==
  {<<Definition("A", 0, 2, 100)>>,
   <<Definition("D", 1, 2, 0), Definition("C", 0, 1, 70)>>,
   <<Definition("C", 0, 1, 30), Definition("E", 3, 5, 70)>>,
   <<Definition("A", 0, 0, Absent), Definition("B", 2, 1, 300)>>,
   <<Definition("C", 0, 1, 1), Definition("D", 1, 2, 0), Definition("F", 4, 4, 1)>>,
   <<Definition("Hero", 3, 3, 30), Definition("G", 0, 0, 70)>>}

\* initMembers, then setCharacterIdleData(anims) without minTime and maxTime.
InitPlayback ==
  \E p \in ParamChoices, anims \in PlaybackLists :
    LET prof == SetCharacterIdleData(
                  Profile(<<>>, Defaults(p).MIN_IDLE, Defaults(p).MAX_IDLE),
                  anims, Undefined, Undefined)
    IN  /\ DEFAULT = Defaults(p)
        /\ idleAnimations = prof.idleAnimations
        /\ isIdling = FALSE
        /\ idleTimer = FZero
        /\ idleMinTime = prof.idleMinTime
        /\ idleMaxTime = prof.idleMaxTime
        /\ currentIdleAnim = NoAnim
        /\ originalPattern = 0
        /\ originalCharacterName = ""
        /\ idleFacingDirection = DefaultDown
        /\ idleFrameCount = NotSet
        /\ idleAnimLength = NotSet
        /\ characterName = "Hero"
        /\ pattern = 1
        /\ direction = 2
        /\ moving = FALSE
        /\ waitCount = 0
        /\ ticks = 0
        /\ entry = [sheet |-> "", pattern |-> 0]
        /\ played = NotSet
        /\ lastLoad = [op |-> "data", lines |-> <<>>]

NextPlayback == TickBlocked \/ TickAtRest \/ Command

SpecPlayback == InitPlayback /\ [][NextPlayback]_vars

\* The character at rest forever: the engine calls update on every frame, and
\* no tick moves the character or makes it wait.
SpecStationary == InitPlayback /\ [][TickAtRest]_vars /\ WF_vars(TickAtRest)

\* ------------------------------------------------------------------------
\* Claims
\* ------------------------------------------------------------------------

AtRestNow == ~moving' /\ waitCount' = 0

\* C1: a tick of updateIdle in which the character moves or waits
\* (waitCount > 0), observed after the host's own update of the same tick,
\* ends with isIdling = false, idleTimer = 0 and currentAnimation = none from
\* every state, idling or not, and does nothing else: no timer increment, no
\* trigger, no frame advance.
C1_MotionInterruptDominates ==
  [][((moving' \/ waitCount' > 0) /\ TickBlocked) =>
       /\ ~isIdling'
       /\ idleTimer' = FZero
       /\ currentIdleAnim' = NoAnim
       /\ UNCHANGED <<originalPattern, originalCharacterName, idleFacingDirection,
                      idleFrameCount, idleAnimLength, renderVars, profileVars>>]_vars

\* An idle of definition A interrupted in the middle of its playback by motion
\* that started in the interrupting tick's own host update.
C1_Witness ==
  /\ moving
  /\ ~isIdling
  /\ idleTimer = FZero
  /\ currentIdleAnim = NoAnim
  /\ characterName = "A"
  /\ idleFrameCount > 0
  /\ idleFrameCount < idleAnimLength

\* C2: the tick that completes a playback (the character at rest on every
\* tick since the entry) shows again exactly the sheet and the pattern that
\* were displayed when the idle was entered, by the timer or by triggerIdle,
\* and leaves isIdling false, currentAnimation none and idleTimer 0.
C2_ReversionRoundTrip ==
  [][(isIdling /\ ~isIdling' /\ AtRestNow) =>
       /\ characterName' = entry.sheet
       /\ pattern' = entry.pattern
       /\ currentIdleAnim' = NoAnim
       /\ idleTimer' = FZero]_vars

\* A completed playback of the 15-frame definition A that was entered from
\* sheet "Hero", pattern 1, and shows them again.
C2_Witness ==
  /\ ~isIdling
  /\ ~moving
  /\ waitCount = 0
  /\ idleFrameCount = framePerPattern
  /\ idleAnimLength = framePerPattern
  /\ idleTimer = FZero
  /\ entry = [sheet |-> "Hero", pattern |-> 1]
  /\ characterName = "Hero"
  /\ pattern = 1

ForcedConfig ==
  /\ DEFAULT.PROB = FZero
  /\ idleAnimations # <<>>
  /\ FGreaterEq(idleMaxTime, idleMinTime)

\* C3: with the global probability 0, a non-empty definition list and
\* minIdleTime <= maxIdleTime, a tick at rest of a character that is not
\* idling enters Idling if and only if the incremented idleTimer is strictly
\* greater than maxIdleTime, whatever the draws: on the first such tick and on
\* no earlier one.
C3_ForcedTrigger ==
  [][(~isIdling /\ ForcedConfig /\ ticks' = ticks + 1 /\ TickAtRest) =>
       (isIdling' <=> FGreater(idleTimer', idleMaxTime))]_vars

\* An idle entered with probability 0 on the 4th tick, the first at which the
\* timer exceeds the maximum of 0.05 s.
C3_Witness ==
  /\ ForcedConfig
  /\ isIdling
  /\ idleFrameCount = 0
  /\ ticks = 4
  /\ FGreater(idleTimer, idleMaxTime)

\* C4: a character no metadata was loaded on has no definition, is not
\* idling and has never idled; for a character without definitions that is not
\* idling, a tick or a triggerIdle request leaves isIdling false and currentAnimation none and
\* writes neither the displayed sheet and pattern nor their snapshot; a tick at
\* rest adds 1/60 to idleTimer (a trigger attempt does not reset it), a
\* triggerIdle request leaves idleTimer as it is.
C4_ZeroDefinitions ==
  /\ [](lastLoad.op = "none" =>
         /\ idleAnimations = <<>>
         /\ ~isIdling
         /\ currentIdleAnim = NoAnim
         /\ originalCharacterName = ""
         /\ idleFrameCount = NotSet)
  /\ [][(idleAnimations = <<>> /\ ~isIdling /\ (TickBlocked \/ TickAtRest \/ Command)) =>
         /\ ~isIdling'
         /\ currentIdleAnim' = NoAnim
         /\ UNCHANGED <<characterName, pattern, originalCharacterName, originalPattern>>
         /\ (TickAtRest => /\ idleTimer' = FAdd(idleTimer, FDiv(1, 60))
                           /\ FGreater(idleTimer', idleTimer))
         /\ (Command => idleTimer' = idleTimer)]_vars

\* A character without definitions whose timer has passed the minimum and the
\* maximum (trigger attempts were made) and never idled.
C4_Witness ==
  /\ idleAnimations = <<>>
  /\ lastLoad.op = "none"
  /\ ~isIdling
  /\ idleFrameCount = NotSet
  /\ FGreaterEq(idleTimer, idleMinTime)
  /\ FGreater(idleTimer, idleMaxTime)
  /\ ticks = MaxIdleTicks

\* C5: a triggerIdle request is honored if and only if the character exists,
\* is not moving, is not idling and has a definition; honored, it enters Idling
\* at once (frame counter 0, a definition of the list on display), whatever
\* idleTimer, the minimum, the maximum and the global probability are, and
\* leaves idleTimer as it is; not honored, it changes nothing.
C5_ExternalTriggerGuard ==
  [][\A id \in CharacterIds, u \in 0..(RandSteps - 1) :
       TriggerIdle(id, u) =>
         IF id = CharacterId /\ ~moving /\ ~isIdling /\ idleAnimations # <<>>
         THEN /\ isIdling'
              /\ \E i \in 1..Len(idleAnimations) : currentIdleAnim' = idleAnimations[i]
              /\ characterName' = currentIdleAnim'.name
              /\ idleFrameCount' = 0
              /\ originalCharacterName' = characterName
              /\ originalPattern' = pattern
              /\ UNCHANGED <<idleTimer, profileVars, hostVars, DEFAULT>>
         ELSE UNCHANGED vars]_vars

\* An idle entered while the timer was still below the minimum: only a
\* triggerIdle request enters it.
C5_Witness ==
  /\ isIdling
  /\ idleFrameCount = 0
  /\ FLess(idleTimer, idleMinTime)

\* C6, as claimed: in the scenario a character at rest from timer 0 enters
\* Idling on tick 61, the first tick on which idleTimer >= 1.0 (no trigger on
\* ticks 1..60).
C6_EntersOnTick61 ==
  [][(~isIdling /\ AtRestNow) =>
       /\ isIdling' <=> ticks' = 61
       /\ FGreaterEq(idleTimer', FromInt(1)) <=> ticks' >= 61]_vars

\* C6, amended: in the scenario a character at rest from timer 0 enters
\* Idling on tick 60, the first tick on which idleTimer >= 1.0 (no trigger on
\* ticks 1..59).
C6_EntersOnTick60 ==
  [][(~isIdling /\ AtRestNow) =>
       /\ isIdling' <=> ticks' = 60
       /\ FGreaterEq(idleTimer', FromInt(1)) <=> ticks' >= 60]_vars

\* The scenario's idle just entered, on tick 60, with the 45 frames of
\* {A, 0, 2, 100} ahead.
C6_Witness ==
  /\ isIdling
  /\ ticks = 60
  /\ idleFrameCount = 0
  /\ idleAnimLength = 45
  /\ currentIdleAnim = [name |-> "A", startPattern |-> 0, endPattern |-> 2, probability |-> 100]
  /\ FGreaterEq(idleTimer, FromInt(1))
  /\ ~FGreater(idleTimer, FromInt(2))

IsLoaded == lastLoad.op # "none"

NoRecognizedTag == \A i \in 1..Len(lastLoad.lines) : lastLoad.lines[i].tag = "other"

\* C7: the load of metadata without a recognized tag (an empty or absent
\* block included) leaves the character with an empty definition list and with
\* the minimum and the maximum of the global configuration, whatever profile
\* it had before.
C7_NoTagsGivesDefaults ==
  (IsLoaded /\ NoRecognizedTag) =>
    /\ idleAnimations = <<>>
    /\ idleMinTime = DEFAULT.MIN_IDLE
    /\ idleMaxTime = DEFAULT.MAX_IDLE

IsIdleAnimLine(line) == line.tag = "IdleAnim"

LoadedIdleAnimLines == SelectSeq(lastLoad.lines, IsIdleAnimLine)

\* C8: after a load of metadata (an actor's note, or the comment commands of
\* an event's page one after another) the definition list holds exactly one
\* definition per IdleAnim line, in file order.
C8_OneDefinitionPerLine ==
  (IsLoaded /\ lastLoad.lines # <<>>) =>
    /\ Len(idleAnimations) = Len(LoadedIdleAnimLines)
    /\ \A i \in 1..Len(LoadedIdleAnimLines) :
         /\ idleAnimations[i].name = LoadedIdleAnimLines[i].name
         /\ idleAnimations[i].startPattern = DecimalValue(LoadedIdleAnimLines[i].start)
         /\ idleAnimations[i].endPattern = DecimalValue(LoadedIdleAnimLines[i].end)

\* C9: the definition of a well-formed IdleAnim line (here: of an actor's
\* note) has probability 100 when the line has no fourth field, and otherwise
\* the integer written in it, 0 included.
C9_ProbabilityAsWritten ==
  (lastLoad.op = "actor" /\ lastLoad.lines # <<>>) =>
    \A i \in 1..Len(LoadedIdleAnimLines) :
      /\ i <= Len(idleAnimations)
      /\ idleAnimations[i].probability =
           IF LoadedIdleAnimLines[i].prob = <<>> THEN 100
           ELSE DecimalValue(LoadedIdleAnimLines[i].prob)

\* C10: on a tick at rest of a character that is not idling and has a
\* definition, Idling is entered if and only if the incremented idleTimer is
\* >= minIdleTime and (it is > maxIdleTime or the tick's draw in [0, 100) is
\* less than the global probability), for every configuration, maxIdleTime <
\* minIdleTime included; the weights of the definitions and the draw of the
\* selection play no part.
C10_AutomaticTrigger ==
  [][\A v \in 0..(RollSteps - 1), u \in 0..(RandSteps - 1) :
       (~isIdling /\ idleAnimations # <<>> /\ ticks' = ticks + 1
          /\ Update(MaxIdleTicks, FALSE, 0, v, u)) =>
         /\ isIdling' <=>
              /\ FGreaterEq(idleTimer', idleMinTime)
              /\ \/ FGreater(idleTimer', idleMaxTime)
                 \/ FLess(Roll(v), DEFAULT.PROB)
         /\ FLess(idleTimer', idleMinTime) => ~isIdling'
         /\ idleTimer' = FAdd(idleTimer, FDiv(1, 60))]_vars

\* An idle entered by the draw alone: the timer has reached the minimum and
\* not exceeded the maximum.
C10_Witness ==
  /\ isIdling
  /\ idleFrameCount = 0
  /\ FGreaterEq(idleTimer, idleMinTime)
  /\ ~FGreater(idleTimer, idleMaxTime)
  /\ FGreaterEq(idleMaxTime, idleMinTime)

PatternCountOf(anim) == anim.endPattern - anim.startPattern + 1

\* C11: for a definition with startPattern <= endPattern the playback has
\* (endPattern - startPattern + 1) * 15 frames; on the ticks at rest after the
\* entry the character stays Idling while fewer ticks than that were played,
\* and the tick that plays the last of them completes: it shows the sheet of
\* the entry again and returns to awaiting the trigger with idleTimer 0.
C11_PlaybackDuration ==
  [][(isIdling /\ currentIdleAnim.startPattern <= currentIdleAnim.endPattern
        /\ TickAtRest) =>
       /\ idleAnimLength = PatternCountOf(currentIdleAnim) * 15
       /\ played' = played + 1
       /\ ~isIdling' <=> played' = PatternCountOf(currentIdleAnim) * 15
       /\ ~isIdling' => /\ characterName' = entry.sheet
                        /\ currentIdleAnim' = NoAnim
                        /\ idleTimer' = FZero]_vars

\* The playback of {A, 0, 2, 100} completed by its 45th tick.
C11_Witness ==
  /\ ~isIdling
  /\ ~moving
  /\ waitCount = 0
  /\ idleAnimations = <<Definition("A", 0, 2, 100)>>
  /\ played = 45
  /\ idleTimer = FZero
  /\ characterName = "Hero"

IdleLogicStep == TickBlocked \/ TickAtRest \/ Command

\* C12: an idle entry records the facing displayed at that moment and nothing
\* changes the record during the playback; every tick that advances a frame
\* and ends in Idling displays the recorded facing, whatever the host made of
\* the facing since the last tick; every other step of the idle logic (a
\* completing tick, an interrupting tick, a tick while not idling, an entry,
\* a triggerIdle request) leaves the displayed facing as it is.
C12_FacingLock ==
  [][/\ (~isIdling /\ isIdling') => idleFacingDirection' = direction
     /\ isIdling => idleFacingDirection' = idleFacingDirection
     /\ (isIdling /\ isIdling' /\ TickAtRest) => direction' = idleFacingDirection
     /\ (IdleLogicStep /\ ~(isIdling /\ isIdling')) => direction' = direction]_vars

\* A playback entered while the host had the character face up (8), some
\* frames on, displaying that facing.
C12_Witness ==
  /\ isIdling
  /\ played >= 2
  /\ idleFacingDirection = 8
  /\ direction = 8

\* C13: while a character plays a definition with startPattern <= endPattern
\* and nothing but the idle logic writes the sheet and the pattern, after every
\* step the sheet on display is the definition's, the frame counter is below
\* the playback's length, and the pattern on display is startPattern +
\* (floor(frameCounter / 15) mod patternCount), within startPattern ..
\* endPattern.
C13_RenderingDuringPlayback ==
  (isIdling /\ currentIdleAnim.startPattern <= currentIdleAnim.endPattern) =>
    /\ characterName = currentIdleAnim.name
    /\ idleFrameCount >= 0
    /\ idleFrameCount < idleAnimLength
    /\ pattern = currentIdleAnim.startPattern
                   + ((idleFrameCount \div 15) % PatternCountOf(currentIdleAnim))
    /\ pattern >= currentIdleAnim.startPattern
    /\ pattern <= currentIdleAnim.endPattern

\* The last frame of {E, 3, 5, 70}: frame 44 of 45, showing pattern 5.
C13_Witness ==
  /\ isIdling
  /\ currentIdleAnim = Definition("E", 3, 5, 70)
  /\ idleFrameCount = 44
  /\ characterName = "E"
  /\ pattern = 5

\* The weight the claim gives a definition: its probability, 100 when it has
\* none.
ClaimedWeight(anim) == IF anim.probability = Absent THEN 100 ELSE anim.probability

RECURSIVE ClaimedCumulative(_, _)
ClaimedCumulative(anims, i) ==
  IF i = 0 THEN 0 ELSE ClaimedCumulative(anims, i - 1) + ClaimedWeight(anims[i])

\* The first definition whose cumulative claimed weight is >= the draw
\* (u / RandSteps) * total; the first of the list when there is none.
ClaimedChoice(anims, u) ==
  LET total == ClaimedCumulative(anims, Len(anims))
      hits  == {i \in 1..Len(anims) : RandSteps * ClaimedCumulative(anims, i) >= u * total}
  IN  IF hits = {} THEN 1 ELSE CHOOSE i \in hits : \A j \in hits : i <= j

\* C14: the definition an idle entry selects is a member of the list: the
\* first, in list order, whose cumulative weight is >= the draw in [0, total),
\* where a definition's weight is its probability (100 only when it has none,
\* so that a probability of 0 adds 0 to the total), and the first of the list
\* only when the walk selects none.
C14_WeightedSelectionWalk ==
  [][\A u \in 0..(RandSteps - 1) :
       (~isIdling /\ isIdling' /\ TriggerIdle(CharacterId, u)) =>
         /\ \E i \in 1..Len(idleAnimations) : currentIdleAnim' = idleAnimations[i]
         /\ TotalWeight(idleAnimations) = ClaimedCumulative(idleAnimations, Len(idleAnimations))
         /\ currentIdleAnim' = idleAnimations[ClaimedChoice(idleAnimations, u)]]_vars

\* C15: a tick in which the character moves or waits leaves the sheet, the
\* pattern and the facing on display, the snapshot of the original sheet and
\* pattern and the frame counters as they are; a playback it interrupts ends
\* with isIdling false and the definition's sheet still on display.
C15_InterruptLeavesRendering ==
  [][TickBlocked =>
       /\ UNCHANGED <<characterName, pattern, direction, originalCharacterName,
                      originalPattern, idleFrameCount, idleAnimLength>>
       /\ (isIdling /\ characterName = currentIdleAnim.name) =>
            (~isIdling' /\ characterName' = currentIdleAnim.name)]_vars

\* A playback of A, entered from sheet "Hero", that a wait interrupted before
\* its last frame: not idling, sheet "A" on display.
C15_Witness ==
  /\ waitCount > 0
  /\ ~isIdling
  /\ currentIdleAnim = NoAnim
  /\ originalCharacterName = "Hero"
  /\ characterName = "A"
  /\ played < idleAnimLength

\* C16: a character with definitions that stays at rest forever, its update
\* called on every frame, enters Idling on the first tick at which idleTimer
\* is >= minIdleTime and > maxIdleTime if no draw entered it before, leaves
\* every Idling period (also one of a definition with endPattern <
\* startPattern), and so is idling infinitely often and awaiting the trigger
\* infinitely often.
C16_LivenessWithoutMotion ==
  /\ [][(~isIdling /\ FGreaterEq(idleTimer', idleMinTime)
           /\ FGreater(idleTimer', idleMaxTime)) => isIdling']_vars
  /\ (~isIdling ~> isIdling)
  /\ (isIdling ~> ~isIdling)
  /\ []<>isIdling
  /\ []<>(~isIdling)

\* The playback of {B, 2, 1} (endPattern < startPattern) completed by its
\* first tick, and the character awaiting the trigger again.
C16_Witness ==
  /\ ~isIdling
  /\ originalCharacterName = "Hero"
  /\ characterName = "Hero"
  /\ idleAnimLength = 0
  /\ played = 1
  /\ ticks >= 1

\* C17: after initialisation and after every operation, isIdling holds if and
\* only if currentAnimation is not none; so every tick at rest of an Idling
\* character runs updateIdleAnimationFrame and adds 1 to its frame counter.
C17_IdlingIffAnimation ==
  /\ [](isIdling <=> currentIdleAnim # NoAnim)
  /\ [][(isIdling /\ TickAtRest) => idleFrameCount' = idleFrameCount + 1]_vars

\* An Idling character, its definition current, after a frame advance.
C17_Witness ==
  /\ isIdling
  /\ currentIdleAnim \in {idleAnimations[i] : i \in 1..Len(idleAnimations)}
  /\ idleFrameCount = 1

\* The double nearest to 1/60.
Sixtieth == FDiv(1, 60)

\* C18: idleTimer changes in three ways only: a tick at rest of a character
\* that is not idling adds 1/60 to it, a tick in which the character moves or
\* waits sets it to 0, and the tick that completes a playback sets it to 0.
\* An entry by triggerIdle leaves it as it was at the request, an entry by the
\* timer leaves it at the incremented value, and a tick that advances a frame
\* leaves it as it is.
C18_TimerFrame ==
  [][/\ idleTimer' # idleTimer =>
          \/ ~isIdling /\ idleTimer' = FAdd(idleTimer, Sixtieth) /\ TickAtRest
          \/ idleTimer' = FZero /\ TickBlocked
          \/ isIdling /\ ~isIdling' /\ idleTimer' = FZero /\ TickAtRest
     /\ (~isIdling /\ AtRestNow /\ ticks' = ticks + 1 /\ TickAtRest) =>
          idleTimer' = FAdd(idleTimer, Sixtieth)
     /\ (isIdling /\ isIdling' /\ played' = played + 1 /\ TickAtRest) =>
          idleTimer' = idleTimer
     /\ (~isIdling /\ isIdling' /\ Command) => idleTimer' = idleTimer]_vars

\* A playback some frames on whose timer still has the value, below the
\* minimum and not 0, that it had at the triggerIdle request.
C18_Witness ==
  /\ isIdling
  /\ played >= 2
  /\ idleTimer # FZero
  /\ FLess(idleTimer, idleMinTime)

\* The snapshot of the sheet "Hero" is lost.  Nothing but the idle logic
\* writes the sheet here, so a character that is not idling shows another
\* sheet than "Hero" only after a playback of a definition of another name was
\* interrupted, and a playback has another original sheet only when it was
\* entered after that.
SnapshotLost ==
  IF isIdling THEN originalCharacterName # "Hero" ELSE characterName # "Hero"

\* C19, as claimed: after the playback of a definition X, of another name than
\* the sheet S ("Hero") it was entered from, was interrupted, the next entry
\* records X's name as the original sheet, its completion leaves that name on
\* display, and no tick or triggerIdle request ever puts S on display again.
C19_SheetNeverRestored ==
  [][SnapshotLost =>
       /\ (~isIdling /\ isIdling') => originalCharacterName' = characterName
       /\ (isIdling /\ ~isIdling' /\ TickAtRest) =>
            characterName' = originalCharacterName
       /\ characterName' # "Hero"]_vars

\* C19, amended: as claimed, except that as long as the snapshot is lost S
\* comes on display again by the entry of a definition whose own name is S,
\* and by nothing else: no completion restores S.
C19_SheetRestoredOnlyByName ==
  [][SnapshotLost =>
       /\ (~isIdling /\ isIdling') => originalCharacterName' = characterName
       /\ (isIdling /\ ~isIdling' /\ TickAtRest) =>
            /\ characterName' = originalCharacterName
            /\ characterName' # "Hero"
       /\ (characterName # "Hero" /\ characterName' = "Hero") =>
            /\ ~isIdling
            /\ isIdling'
            /\ currentIdleAnim'.name = "Hero"]_vars

\* A playback entered after an interrupted one and completed: the sheet on
\* display is the interrupted definition's, recorded as the original.
C19_Witness ==
  /\ ~isIdling
  /\ ~moving
  /\ waitCount = 0
  /\ played > 0
  /\ played = idleAnimLength
  /\ idleTimer = FZero
  /\ originalCharacterName # "Hero"
  /\ characterName = originalCharacterName

\* C20: a triggerIdle request for a character that waits (waitCount > 0)
\* without moving, is not idling and has a definition is honored: Idling is
\* entered with the chosen definition's sheet on display and frame counter 0.
\* If the character's next tick finds it still moving or waiting, that tick
\* clears isIdling and currentAnimation, with the frame counter still 0 and
\* the sheet and the pattern on display as they are: nothing is restored.
C20_TriggerWhileBlocked ==
  /\ []((~moving /\ waitCount > 0 /\ ~isIdling /\ idleAnimations # <<>>) =>
         ENABLED (Command /\ isIdling' /\ idleFrameCount' = 0))
  /\ [][/\ \A u \in 0..(RandSteps - 1) :
             (~moving /\ waitCount > 0 /\ ~isIdling /\ idleAnimations # <<>>
                /\ TriggerIdle(CharacterId, u)) =>
               /\ isIdling'
               /\ currentIdleAnim' = ChosenAnim(idleAnimations, u)
               /\ characterName' = currentIdleAnim'.name
               /\ pattern' = currentIdleAnim'.startPattern
               /\ idleFrameCount' = 0
        /\ (isIdling /\ waitCount > 0 /\ TickBlocked) =>
             /\ ~isIdling'
             /\ currentIdleAnim' = NoAnim
             /\ idleFrameCount' = 0
             /\ UNCHANGED <<characterName, pattern, originalCharacterName,
                            originalPattern>>]_vars

\* A waiting character that a triggerIdle request has just made idle.
C20_Witness ==
  /\ isIdling
  /\ waitCount > 0
  /\ ~moving
  /\ idleFrameCount = 0
  /\ characterName = currentIdleAnim.name

====
